---- MODULE Spec2Model ----
(***************************************************************************)
(* State-machine model of tinydb's storage core: the buffer pool           *)
(* (src/src/storage/buffer.rs), heap insertion (src/src/access/heap.rs)    *)
(* and page initialisation (src/src/catalog/heap.rs).                      *)
(*                                                                         *)
(* The program is single threaded, so every public operation is one atomic *)
(* action.  Operations are written as operators over a record `s' holding  *)
(* the pool and the storage, so that an operation that calls another one   *)
(* (alloc_buffer -> fetch_buffer -> new_free_buffer -> victim ->           *)
(* flush_buffer) is the composition of their operators, in the order of    *)
(* the code.  Each operator returns [s |-> state after, ret |-> Result].   *)
(* A panic (assert!, expect) sets s.panicked: the process is gone and no   *)
(* further operation runs.                                                 *)
(***************************************************************************)
EXTENDS Integers, Sequences, FiniteSets, TLC

(***************************************************************************)
(* Bounds of the model.                                                    *)
(***************************************************************************)
\* Number of frames of the pool: the `size' given to BufferPool::new.
Capacity == 2
\* Number of relations (files) the callers use.
NumRels == 1
\* No relation file is extended beyond this many pages.
MaxPages == 3
\* A caller does not hold more than this many pins on one frame.
MaxPins == 2
\* Tuples the callers insert are 1..MaxTuple; tuple t encodes to t * LenUnit
\* bytes, except the last one, which encodes to more than a page can hold.
MaxTuple == 2
LenUnit == 4000
\* A caller calls next() at most this many times after its scanner returned None.
MaxExtraNext == 1
\* heap_scan is given at most this many item ids on the page it scans.
MaxItems == 2
MaxOid == 2
MaxName == 2
CatalogLen == 4000
MaxCatalogPages == 2
MaxStream == 6
MaxRows == 1
MaxFailures == 1
MaxDatum == 2
MaxValuesRows == 2
MaxStored == 1

(***************************************************************************)
(* Program constants.                                                      *)
(***************************************************************************)
PAGE_SIZE == 8192
PAGE_HEADER_SIZE == 6
ITEM_ID_SIZE == 4
INVALID_OID == 0
INVALID_PAGE_NUMBER == 0
PG_CLASS_RELATION_OID == 1259
PG_ATTRIBUTE_RELATION_OID == 1249

Frames == 1..Capacity
Rels == 1..NumRels
PageNumbers == 1..MaxPages
Tuples == 1..MaxTuple

\* The oids heap_create is called with, and the relation names.
Oids == 1..MaxOid
Names == 1..MaxName

\* The relations that have a file: the callers' relations and the catalog.
AllRels == Rels \cup Oids \cup {PG_CLASS_RELATION_OID, PG_ATTRIBUTE_RELATION_OID}

\* rel: Option<Relation> of a descriptor; None is NoRel.
NoRel == INVALID_OID

VARIABLES
    smgr,            \* storage: smgr[rel] is the file of rel, a sequence of pages
    pages,           \* BufferPool.pages: the descriptors, pages[b] for buffer b
    free_list,       \* BufferPool.free_list (a Vec used as a stack)
    lru,             \* BufferPool.lru: unpinned buffers, oldest first
    page_table,      \* BufferPool.page_table: BufferTag -> Buffer
    table_capacity,  \* what page_table.capacity() returns (fixed by the allocator)
    overflow_checks, \* whether the build panics on integer overflow ("on") or wraps
                     \* ("off"); "any" until an operation's outcome depends on it
    panicked,        \* the process has panicked
    zero_order,      \* history: buffers ordered by their latest unpin to refcount 0
    logical,         \* history: logical[rel][n] is page n of rel as last written
                     \* through the pool, whether or not it has reached storage
    held,            \* callers: held[b] is the number of pins of buffer b that
                     \* fetch_buffer or alloc_buffer returned to a caller that
                     \* has not unpinned it yet
    scanner,         \* the HeapScanner of the caller, if it has made one
    stream           \* Connection.stream: the messages handed to encode, in
                     \* order, each with whether it was written

poolvars == <<smgr, pages, free_list, lru, page_table, table_capacity,
              overflow_checks, panicked, zero_order, logical, held, scanner>>

vars == <<smgr, pages, free_list, lru, page_table, table_capacity,
          overflow_checks, panicked, zero_order, logical, held, scanner, stream>>

(***************************************************************************)
(* Results.                                                                *)
(***************************************************************************)
Ok(v) == [ok |-> TRUE, val |-> v, err |-> "none"]
Err(e) == [ok |-> FALSE, val |-> 0, err |-> e]
\* The value of an operation that panicked: it never returns.
Panic(e) == [ok |-> FALSE, val |-> 0, err |-> e]

(***************************************************************************)
(* Pages.  A page is its header and the item ids (with the tuple each      *)
(* points to) between PAGE_HEADER_SIZE and start_free_space; every other   *)
(* byte is zero.                                                           *)
(***************************************************************************)
\* [0; PAGE_SIZE]
ZeroPage == [start_free_space |-> 0, end_free_space |-> 0, items |-> <<>>]

\* PageHeader::default() serialized and resized to PAGE_SIZE.
DefaultHeaderPage ==
    [start_free_space |-> PAGE_HEADER_SIZE, end_free_space |-> PAGE_SIZE, items |-> <<>>]

(***************************************************************************)
(* Buffer tags and descriptors.                                            *)
(***************************************************************************)
BufferTagNew(page_number, rel) == <<rel, page_number>>

BufferTagDefault == <<INVALID_OID, INVALID_PAGE_NUMBER>>

BufferDescNew(id, tag) ==
    [id |-> id, tag |-> tag, refcount |-> 0, is_dirty |-> FALSE,
     rel |-> NoRel, page |-> ZeroPage]

(***************************************************************************)
(* usize arithmetic is modulo 2^64.  The model keeps the representative of *)
(* a counter in -2^63 .. 2^63-1, so usize::MAX is -1, 0 - 1 wraps to -1    *)
(* and "greater than zero" is "different from zero".                       *)
(***************************************************************************)
UsizeSubOverflows(r) == r = 0
UsizeSubOne(r) == r - 1

(***************************************************************************)
(* The replacer (crate::lru::LRU): a sequence of buffer ids, oldest first. *)
(***************************************************************************)
LruNew == <<>>
LruPin(l, id) == SelectSeq(l, LAMBDA x : x # id)
LruUnpin(l, id) == Append(SelectSeq(l, LAMBDA x : x # id), id)
LruIsEmpty(l) == Len(l) = 0
LruOldest(l) == Head(l)
LruWithoutOldest(l) == Tail(l)

(***************************************************************************)
(* The storage manager (StorageManager).  s.wbudget is the number of       *)
(* writes that succeed before the storage starts failing, within the       *)
(* running operation: an input of the operation.                           *)
(***************************************************************************)
SmgrSize(s, rel) == Len(s.smgr[rel])

SmgrReadOk(s, rel, page_num) == page_num \in 1..SmgrSize(s, rel)

SmgrReadPage(s, rel, page_num) == s.smgr[rel][page_num]

\* A file with page page_num set; a write past the end of the file leaves a
\* hole of zero bytes before it.
FileWithPage(file, page_num, page) ==
    [i \in 1..(IF page_num > Len(file) THEN page_num ELSE Len(file)) |->
        IF i = page_num THEN page
        ELSE IF i <= Len(file) THEN file[i]
        ELSE ZeroPage]

\* StorageManager::write
SmgrWrite(s, rel, page_num, page) ==
    IF s.wbudget = 0
    THEN [s |-> [s EXCEPT !.wfailed = TRUE], ret |-> Err("ShortWrite")]
    ELSE [s |-> [s EXCEPT !.smgr[rel] = FileWithPage(@, page_num, page),
                          !.wbudget = @ - 1,
                          !.written = Append(@, BufferTagNew(page_num, rel))],
          ret |-> Ok(0)]

\* StorageManager::extend
SmgrExtend(s, rel) ==
    [s EXCEPT !.smgr[rel] = Append(@, ZeroPage),
              !.logical[rel] = Append(@, ZeroPage)]

(***************************************************************************)
(* BufferPool.  An operator named XAfterY is the rest of operation X once  *)
(* its call of Y has returned y.                                           *)
(***************************************************************************)
\* BufferPool::new(size, smgr)
BufferPoolNew(size, files) ==
    [smgr |-> files,
     pages |-> [b \in 1..size |-> BufferDescNew(b, BufferTagDefault)],
     free_list |-> [i \in 1..size |-> i],
     lru |-> LruNew,
     page_table |-> <<>>,
     panicked |-> FALSE]

\* pin_buffer that forgets to tell the replacer.
PinBufferKeepsLru(s, b) ==
    [s EXCEPT !.pages[b].refcount = @ + 1]

\* pin_buffer
PinBuffer(s, b) ==
    [s EXCEPT !.pages[b].refcount = @ + 1,
              !.lru = LruPin(@, b)]

\* get_page
GetPage(s, b) == s.pages[b].page

\* flush_buffer that releases the pins of the buffer.
FlushBufferUnpins(s, b) ==
    IF s.pages[b].rel = NoRel
    THEN [s |-> s, ret |-> Err("NoRelation")]
    ELSE SmgrWrite([s EXCEPT !.pages[b].refcount = 0],
                   s.pages[b].rel, s.pages[b].tag[2], GetPage(s, b))

\* flush_buffer that clears is_dirty before it writes.
FlushBufferMarksCleanFirst(s, b) ==
    IF s.pages[b].rel = NoRel
    THEN [s |-> s, ret |-> Err("NoRelation")]
    ELSE SmgrWrite([s EXCEPT !.pages[b].is_dirty = FALSE],
                   s.pages[b].rel, s.pages[b].tag[2], GetPage(s, b))

\* flush_buffer
FlushBuffer(s, b) ==
    IF s.pages[b].rel = NoRel
    THEN [s |-> s, ret |-> Err("NoRelation")]
    ELSE SmgrWrite(s, s.pages[b].rel, s.pages[b].tag[2], GetPage(s, b))

\* victim that leaves the entry of the chosen buffer in page_table.
VictimKeepsEntry(fl, buffer) ==
    IF ~fl.ret.ok
    THEN fl
    ELSE [s |-> fl.s, ret |-> Ok(buffer)]

\* victim, after the flush of the chosen buffer (if it was dirty) returned fl
VictimAfterFlush(fl, buffer) ==
    IF ~fl.ret.ok
    THEN fl
    ELSE [s |-> [fl.s EXCEPT !.page_table =
                    [t \in (DOMAIN @) \ {fl.s.pages[buffer].tag} |-> @[t]]],
          ret |-> Ok(buffer)]

\* victim that removes the page from the table without flushing it.
VictimTakenNoFlush(s, buffer) ==
    VictimAfterFlush([s |-> s, ret |-> Ok(0)], buffer)

\* victim, with `buffer' taken from the replacer
VictimTaken(s, buffer) ==
    VictimAfterFlush(IF s.pages[buffer].is_dirty
                     THEN FlushBuffer(s, buffer)
                     ELSE [s |-> s, ret |-> Ok(0)],
                     buffer)

\* victim that reports an empty replacer as an error value.
VictimReportsNoFreeBuffer(s) ==
    IF LruIsEmpty(s.lru)
    THEN [s |-> s, ret |-> Err("NoFreeBuffer")]
    ELSE VictimTaken([s EXCEPT !.lru = LruWithoutOldest(@),
                               !.victims = Append(@, LruOldest(s.lru))],
                     LruOldest(s.lru))

\* victim
Victim(s) ==
    IF LruIsEmpty(s.lru)
    THEN [s |-> [s EXCEPT !.panicked = TRUE], ret |-> Panic("NoVictim")]
    ELSE VictimTaken([s EXCEPT !.lru = LruWithoutOldest(@),
                               !.victims = Append(@, LruOldest(s.lru))],
                     LruOldest(s.lru))

\* new_free_buffer
NewFreeBuffer(s) ==
    IF ~(Cardinality(DOMAIN s.page_table) < table_capacity)
    THEN [s |-> [s EXCEPT !.panicked = TRUE], ret |-> Panic("ExceededCapacity")]
    ELSE IF Len(s.free_list) > 0
         THEN [s |-> [s EXCEPT !.free_list = SubSeq(@, 1, Len(@) - 1)],
               ret |-> Ok(s.free_list[Len(s.free_list)])]
         ELSE Victim(s)

\* fetch_buffer that leaves the tag of the descriptor as it was.
FetchRebindKeepsTag(s, new_buffer, buf_tag, rel) ==
    [s EXCEPT !.pages[new_buffer] = [@ EXCEPT !.refcount = 0,
                                              !.is_dirty = FALSE,
                                              !.rel = rel,
                                              !.page = ZeroPage]]

\* fetch_buffer, the page not in the table: the descriptor is rebound
FetchRebind(s, new_buffer, buf_tag, rel) ==
    [s EXCEPT !.pages[new_buffer] = [@ EXCEPT !.tag = buf_tag,
                                              !.refcount = 0,
                                              !.is_dirty = FALSE,
                                              !.rel = rel,
                                              !.page = ZeroPage]]

\* fetch_buffer, the page not in the table: the read, the insertion and the pin
FetchRead(s, new_buffer, rel, page_num) ==
    IF ~SmgrReadOk(s, rel, page_num)
    THEN [s |-> s, ret |-> Err("ShortRead")]
    ELSE [s |-> PinBuffer([s EXCEPT !.pages[new_buffer].page =
                                        SmgrReadPage(s, rel, page_num),
                                    !.page_table =
                                        (BufferTagNew(page_num, rel) :> new_buffer) @@ @],
                          new_buffer),
          ret |-> Ok(new_buffer)]

\* fetch_buffer, the page not in the table, after new_free_buffer returned nf
FetchAfterNewFreeBuffer(nf, rel, page_num) ==
    IF ~nf.ret.ok
    THEN nf
    ELSE FetchRead(FetchRebind(nf.s, nf.ret.val, BufferTagNew(page_num, rel), rel),
                   nf.ret.val, rel, page_num)

\* fetch_buffer
FetchBuffer(s, rel, page_num) ==
    IF BufferTagNew(page_num, rel) \in DOMAIN s.page_table
    THEN [s |-> PinBuffer(s, s.page_table[BufferTagNew(page_num, rel)]),
          ret |-> Ok(s.page_table[BufferTagNew(page_num, rel)])]
    ELSE FetchAfterNewFreeBuffer(NewFreeBuffer(s), rel, page_num)

\* alloc_buffer, after smgr.extend
AllocAfterExtend(s, rel) == FetchBuffer(s, rel, SmgrSize(s, rel))

\* alloc_buffer
AllocBuffer(s, rel) == AllocAfterExtend(SmgrExtend(s, rel), rel)

\* A holder of the page handle get_page returns overwrites the page of a buffer.
WritePage(s, buffer, page) ==
    [s EXCEPT !.pages[buffer].page = page,
              !.logical[s.pages[buffer].tag[1]] =
                  FileWithPage(@, s.pages[buffer].tag[2], page)]

\* unpin_buffer that hands the buffer to the replacer whatever its refcount.
UnpinAlwaysToLru(s, buffer) ==
    [s |-> [s EXCEPT !.lru = LruUnpin(@, buffer),
                     !.zero_order = LruUnpin(@, buffer)],
     ret |-> Ok(0)]

\* unpin_buffer, after the decrement
UnpinAfterDecrement(s, buffer) ==
    IF s.pages[buffer].refcount = 0
    THEN [s |-> [s EXCEPT !.lru = LruUnpin(@, buffer),
                          !.zero_order = LruUnpin(@, buffer)],
          ret |-> Ok(0)]
    ELSE [s |-> s, ret |-> Ok(0)]

\* unpin_buffer that assigns was_dirtied to is_dirty.
UnpinBufferOverwritesDirty(s, buffer, is_dirty) ==
    IF UsizeSubOverflows(s.pages[buffer].refcount) /\ s.overflow_checks = "on"
    THEN [s |-> [s EXCEPT !.pages[buffer].is_dirty = is_dirty,
                          !.panicked = TRUE,
                          !.overflowed = TRUE],
          ret |-> Panic("SubOverflow")]
    ELSE UnpinAfterDecrement(
             [s EXCEPT !.pages[buffer].is_dirty = is_dirty,
                       !.pages[buffer].refcount = UsizeSubOne(@),
                       !.overflowed = @ \/ UsizeSubOverflows(s.pages[buffer].refcount)],
             buffer)

\* unpin_buffer
UnpinBuffer(s, buffer, is_dirty) ==
    IF UsizeSubOverflows(s.pages[buffer].refcount) /\ s.overflow_checks = "on"
    THEN [s |-> [s EXCEPT !.pages[buffer].is_dirty = @ \/ is_dirty,
                          !.panicked = TRUE,
                          !.overflowed = TRUE],
          ret |-> Panic("SubOverflow")]
    ELSE UnpinAfterDecrement(
             [s EXCEPT !.pages[buffer].is_dirty = @ \/ is_dirty,
                       !.pages[buffer].refcount = UsizeSubOne(@),
                       !.overflowed = @ \/ UsizeSubOverflows(s.pages[buffer].refcount)],
             buffer)

\* flush_all_buffers; `order' is the order in which the HashMap yields its
\* values, i the position of the loop in it.
RECURSIVE FlushAllFrom(_, _, _)
FlushAllAfterWrite(w, order, i) ==
    IF ~w.ret.ok THEN w ELSE FlushAllFrom(w.s, order, i + 1)

FlushAllFrom(s, order, i) ==
    IF i > Len(order)
    THEN [s |-> s, ret |-> Ok(0)]
    ELSE IF s.pages[order[i]].rel = NoRel
         THEN [s |-> s, ret |-> Err("NoRelation")]
         ELSE FlushAllAfterWrite(
                  SmgrWrite(s, s.pages[order[i]].rel, s.pages[order[i]].tag[2],
                            GetPage(s, order[i])),
                  order, i)

FlushAllBuffers(s, order) == FlushAllFrom(s, order, 1)

\* size_of_relation
SizeOfRelation(s, rel) == SmgrSize(s, rel)

(***************************************************************************)
(* Slotted pages and the free-space policy (storage::page,                 *)
(* storage::freespace) and the tuple codec (access::heaptuple).            *)
(***************************************************************************)
\* Length in bytes of tuple.encode().
EncodedLen(t) ==
    IF t < MaxTuple THEN t * LenUnit
    ELSE IF t = MaxTuple THEN PAGE_SIZE
    ELSE CatalogLen

PageFreeSpace(page) == page.end_free_space - page.start_free_space

PageHasRoom(page, len) == PageFreeSpace(page) >= len + ITEM_ID_SIZE

\* page_add_item: the page with the item added, for a page that has room.
PageAddItem(page, t) ==
    [start_free_space |-> page.start_free_space + ITEM_ID_SIZE,
     end_free_space |-> page.end_free_space - EncodedLen(t),
     items |-> Append(page.items,
                      [offset |-> page.end_free_space - EncodedLen(t),
                       length |-> EncodedLen(t),
                       tuple |-> t])]

\* get_page_with_free_space: the linear scan from page `page_num' on.
RECURSIVE ScanForFreeSpace(_, _, _, _)
ScanAfterUnpin(u, rel, required, page_num) ==
    IF ~u.ret.ok THEN u ELSE ScanForFreeSpace(u.s, rel, required, page_num + 1)

ScanAfterFetch(f, rel, required, page_num) ==
    IF ~f.ret.ok
    THEN f
    ELSE IF PageHasRoom(GetPage(f.s, f.ret.val), required)
         THEN f
         ELSE ScanAfterUnpin(UnpinBuffer(f.s, f.ret.val, FALSE),
                             rel, required, page_num)

ScanForFreeSpace(s, rel, required, page_num) ==
    IF page_num > SizeOfRelation(s, rel)
    THEN AllocBuffer(s, rel)
    ELSE ScanAfterFetch(FetchBuffer(s, rel, page_num), rel, required, page_num)

GetPageWithFreeSpace(s, rel, required) == ScanForFreeSpace(s, rel, required, 1)

\* heap_insert that adds the item whatever the free space of the page.
HeapInsertIgnoresRoom(g, t) ==
    IF ~g.ret.ok
    THEN g
    ELSE UnpinBuffer(WritePage(g.s, g.ret.val,
                               PageAddItem(GetPage(g.s, g.ret.val), t)),
                     g.ret.val, TRUE)

\* heap_insert, after get_page_with_free_space returned g
HeapInsertAfterGetPage(g, t) ==
    IF ~g.ret.ok
    THEN g
    ELSE IF ~PageHasRoom(GetPage(g.s, g.ret.val), EncodedLen(t))
         THEN [s |-> g.s, ret |-> Err("NoRoomOnPage")]
         ELSE UnpinBuffer(WritePage(g.s, g.ret.val,
                                    PageAddItem(GetPage(g.s, g.ret.val), t)),
                          g.ret.val, TRUE)

\* heap_insert
HeapInsert(s, rel, t) ==
    HeapInsertAfterGetPage(GetPageWithFreeSpace(s, rel, EncodedLen(t)), t)

\* initialize_default_page_header, after flush_buffer returned fl
InitAfterFlush(fl, buf_id) ==
    IF ~fl.ret.ok THEN fl ELSE UnpinBuffer(fl.s, buf_id, TRUE)

\* initialize_default_page_header, after alloc_buffer returned a
InitAfterAlloc(a) ==
    IF ~a.ret.ok
    THEN a
    ELSE InitAfterFlush(FlushBuffer(WritePage(a.s, a.ret.val, DefaultHeaderPage),
                                    a.ret.val),
                        a.ret.val)

\* initialize_default_page_header
InitializeDefaultPageHeader(s, rel) == InitAfterAlloc(AllocBuffer(s, rel))

(***************************************************************************)
(* HeapScanner and heap_scan (src/src/access/heap.rs).  The scanner record *)
(* holds the fields of the struct: buffer (0 for None), the item ids       *)
(* copied from the page by new (item_id_data_cursor) and the position of   *)
(* the cursor; and, as history, whether the scanner is alive, how often it *)
(* has called unpin_buffer, and whether a yield of it has failed.          *)
(* next() returns Ok(t) for Some(Ok(t)), Ok(0) for None and Err for        *)
(* Some(Err).                                                              *)
(***************************************************************************)
NoScanner ==
    [state |-> "none", buffer |-> 0, items |-> <<>>, pos |-> 0,
     unpins |-> 0, failed |-> FALSE]

\* The item ids of a page: page.slice(PAGE_HEADER_SIZE, start_free_space).
ItemIds(page) == [i \in 1..Len(page.items) |->
                     [offset |-> page.items[i].offset,
                      length |-> page.items[i].length]]

\* HeapScanner::new, after fetch_buffer returned f
ScannerNewAfterFetch(f) ==
    IF ~f.ret.ok
    THEN f
    ELSE IF GetPage(f.s, f.ret.val).start_free_space < PAGE_HEADER_SIZE
         THEN [s |-> [f.s EXCEPT !.panicked = TRUE], ret |-> Panic("SliceIndex")]
         ELSE [s |-> [f.s EXCEPT !.scanner =
                        [state |-> "open", buffer |-> f.ret.val,
                         items |-> ItemIds(GetPage(f.s, f.ret.val)), pos |-> 0,
                         unpins |-> 0, failed |-> FALSE]],
               ret |-> Ok(f.ret.val)]

\* HeapScanner::new
HeapScannerNew(s, rel) == ScannerNewAfterFetch(FetchBuffer(s, rel, 1))

\* The tuple an item id of the scanner points to in the page of its buffer
\* now, or 0 if the bytes there are not those of a tuple.
TupleAt(page, item_id, i) ==
    IF i <= Len(page.items) /\ page.items[i].offset = item_id.offset
                            /\ page.items[i].length = item_id.length
    THEN page.items[i].tuple
    ELSE 0

\* next_tuple, the cursor has read an item id: decode the tuple it points to.
\* decodes says whether HeapTuple::decode accepts the bytes.
NextTupleDecode(s, i, decodes) ==
    IF decodes /\ TupleAt(GetPage(s, s.scanner.buffer), s.scanner.items[i], i) # 0
    THEN [s |-> s,
          ret |-> Ok(TupleAt(GetPage(s, s.scanner.buffer), s.scanner.items[i], i))]
    ELSE [s |-> [s EXCEPT !.scanner.failed = TRUE], ret |-> Err("Decode")]

\* HeapScanner::next_tuple (and Iterator::next, which wraps it)
NextTuple(s, decodes) ==
    IF s.scanner.buffer = 0
    THEN [s |-> s, ret |-> Ok(0)]
    ELSE IF s.scanner.pos = Len(s.scanner.items)
         THEN UnpinBuffer([s EXCEPT !.scanner.unpins = @ + 1],
                          s.scanner.buffer, FALSE)
         ELSE NextTupleDecode([s EXCEPT !.scanner.pos = @ + 1],
                              s.scanner.pos + 1, decodes)

\* heap_scan, the loop over the scanner: every item decodes but item fail_at.
RECURSIVE HeapScanLoop(_, _, _)
HeapScanAfterNext(n, tuples, fail_at) ==
    IF ~n.ret.ok
    THEN n
    ELSE IF n.ret.val = 0
         THEN [s |-> n.s, ret |-> Ok(tuples)]
         ELSE HeapScanLoop(n.s, Append(tuples, n.ret.val), fail_at)

HeapScanLoop(s, tuples, fail_at) ==
    HeapScanAfterNext(NextTuple(s, s.scanner.pos + 1 # fail_at), tuples, fail_at)

\* heap_scan, after HeapScanner::new returned h
HeapScanAfterNew(h, fail_at) ==
    IF ~h.ret.ok THEN h ELSE HeapScanLoop(h.s, <<>>, fail_at)

\* heap_scan: its scanner is a local of the call.
HeapScanLocal(r, caller) == [s |-> [r.s EXCEPT !.scanner = caller], ret |-> r.ret]

HeapScan(s, rel, fail_at) ==
    HeapScanLocal(HeapScanAfterNew(HeapScannerNew(s, rel), fail_at), s.scanner)

(***************************************************************************)
(* The catalog (src/src/catalog).  A PgClass is [oid, relname], a          *)
(* PgAttribute [attrelid, attnum, attname]; a tuple of a catalog heap is   *)
(* the number bincode::serialize gives it.  heap_iter is not in            *)
(* src/src/access/heap.rs: it is the scan of section 4.1 of the            *)
(* specification, over all pages in page order then item-id order, one     *)
(* page pinned at a time.                                                  *)
(***************************************************************************)
SerializePgClass(c) == 100 + 10 * c.oid + c.relname

DeserializePgClass(t) ==
    [oid |-> (t - 100) \div 10, relname |-> (t - 100) % 10]

SerializePgAttribute(a) == 1000 + 100 * a.attrelid + 10 * a.attnum + a.attname

DeserializePgAttribute(t) ==
    [attrelid |-> (t - 1000) \div 100,
     attnum |-> ((t - 1000) % 100) \div 10,
     attname |-> (t - 1000) % 10]

\* The tuples of a page, in item-id order.
PageTuples(page) == [i \in 1..Len(page.items) |-> page.items[i].tuple]

\* heap_iter: the tuples it hands to its closure, from page `page_num' on.
RECURSIVE HeapIterFrom(_, _, _, _)
HeapIterAfterUnpin(u, rel, page_num, tuples) ==
    IF ~u.ret.ok
    THEN u
    ELSE HeapIterFrom(u.s, rel, page_num + 1, tuples)

HeapIterAfterFetch(f, rel, page_num, tuples) ==
    IF ~f.ret.ok
    THEN f
    ELSE HeapIterAfterUnpin(UnpinBuffer(f.s, f.ret.val, FALSE), rel, page_num,
                            tuples \o PageTuples(GetPage(f.s, f.ret.val)))

HeapIterFrom(s, rel, page_num, tuples) ==
    IF page_num > SizeOfRelation(s, rel)
    THEN [s |-> s, ret |-> Ok(tuples)]
    ELSE HeapIterAfterFetch(FetchBuffer(s, rel, page_num), rel, page_num, tuples)

HeapIter(s, rel) == HeapIterFrom(s, rel, 1, <<>>)

\* pg_class_tuple = None
NonePgClass == [oid |-> INVALID_OID, relname |-> 0]

\* Error::RelationNotFound(rel_name)
RelationNotFound(rel_name) ==
    [ok |-> FALSE, val |-> rel_name, err |-> "RelationNotFound"]

\* The closure of get_pg_class_relation that takes every match.
RECURSIVE PgClassLastMatch(_, _, _, _)
PgClassLastMatch(tuples, i, rel_name, pg_class_tuple) ==
    IF i > Len(tuples)
    THEN pg_class_tuple
    ELSE PgClassLastMatch(tuples, i + 1, rel_name,
             IF DeserializePgClass(tuples[i]).relname = rel_name
             THEN DeserializePgClass(tuples[i])
             ELSE pg_class_tuple)

\* get_pg_class_relation, its closure called on the tuples from i on
RECURSIVE PgClassFirstMatch(_, _, _, _)
PgClassFirstMatch(tuples, i, rel_name, pg_class_tuple) ==
    IF i > Len(tuples)
    THEN pg_class_tuple
    ELSE PgClassFirstMatch(tuples, i + 1, rel_name,
             IF /\ pg_class_tuple = NonePgClass
                /\ DeserializePgClass(tuples[i]).relname = rel_name
             THEN DeserializePgClass(tuples[i])
             ELSE pg_class_tuple)

\* get_pg_class_relation, after heap_iter returned it
GetPgClassAfterIter(it, rel_name) ==
    IF ~it.ret.ok
    THEN it
    ELSE IF PgClassFirstMatch(it.ret.val, 1, rel_name, NonePgClass) = NonePgClass
         THEN [s |-> it.s, ret |-> RelationNotFound(rel_name)]
         ELSE [s |-> it.s,
               ret |-> Ok(PgClassFirstMatch(it.ret.val, 1, rel_name, NonePgClass))]

\* get_pg_class_relation
GetPgClassRelation(s, rel_name) ==
    GetPgClassAfterIter(HeapIter(s, PG_CLASS_RELATION_OID), rel_name)

\* tuple_desc_from_relation, its closure called on the tuples from i on
RECURSIVE AttributesOf(_, _, _, _)
AttributesOf(tuples, i, oid, attributes) ==
    IF i > Len(tuples)
    THEN attributes
    ELSE AttributesOf(tuples, i + 1, oid,
             IF DeserializePgAttribute(tuples[i]).attrelid = oid
             THEN Append(attributes, DeserializePgAttribute(tuples[i]))
             ELSE attributes)

\* tuple_desc_from_relation, after heap_iter returned it
TupleDescAfterIter(it, oid) ==
    IF ~it.ret.ok
    THEN it
    ELSE [s |-> it.s, ret |-> Ok(AttributesOf(it.ret.val, 1, oid, <<>>))]

\* tuple_desc_from_relation, after get_pg_class_relation returned c
TupleDescAfterPgClass(c) ==
    IF ~c.ret.ok
    THEN c
    ELSE TupleDescAfterIter(HeapIter(c.s, PG_ATTRIBUTE_RELATION_OID), c.ret.val.oid)

\* tuple_desc_from_relation
TupleDescFromRelation(s, rel_name) ==
    TupleDescAfterPgClass(GetPgClassRelation(s, rel_name))

\* add_new_attribute_tuples: the loop from attribute i on
RECURSIVE AddAttributesFrom(_, _, _)
AddAttributesAfterInsert(h, attrs, i) ==
    IF ~h.ret.ok THEN h ELSE AddAttributesFrom(h.s, attrs, i + 1)

AddAttributesFrom(s, attrs, i) ==
    IF i > Len(attrs)
    THEN [s |-> s, ret |-> Ok(0)]
    ELSE AddAttributesAfterInsert(
             HeapInsert(s, PG_ATTRIBUTE_RELATION_OID, SerializePgAttribute(attrs[i])),
             attrs, i)

\* add_new_attribute_tuples
AddNewAttributeTuples(s, tupledesc) == AddAttributesFrom(s, tupledesc, 1)

\* add_new_relation_tuple, after the page header of pg_class was initialized
\* if pg_class had no page
AddRelationAfterInit(h, new_rel_oid, rel_name) ==
    IF ~h.ret.ok
    THEN h
    ELSE HeapInsert(h.s, PG_CLASS_RELATION_OID,
                    SerializePgClass([oid |-> new_rel_oid, relname |-> rel_name]))

\* add_new_relation_tuple
AddNewRelationTuple(s, new_rel_oid, rel_name) ==
    AddRelationAfterInit(
        IF SizeOfRelation(s, PG_CLASS_RELATION_OID) = 0
        THEN InitializeDefaultPageHeader(s, PG_CLASS_RELATION_OID)
        ELSE [s |-> s, ret |-> Ok(0)],
        new_rel_oid, rel_name)

\* heap_create that does not give the new relation its first page.
HeapCreateWithoutPage(r, new_rel_oid) == r

\* heap_create, after add_new_relation_tuple returned r
HeapCreateAfterRelation(r, new_rel_oid) ==
    IF ~r.ret.ok THEN r ELSE InitializeDefaultPageHeader(r.s, new_rel_oid)

\* heap_create, after add_new_attribute_tuples returned a
HeapCreateAfterAttributes(a, rel_name, new_rel_oid) ==
    IF ~a.ret.ok
    THEN a
    ELSE HeapCreateAfterRelation(AddNewRelationTuple(a.s, new_rel_oid, rel_name),
                                 new_rel_oid)

\* heap_create that adds the pg_class tuple before the pg_attribute tuples.
HeapCreateRelationFirst(s, rel_name, new_rel_oid, tupledesc) ==
    HeapCreateAfterRelation(
        IF ~AddNewRelationTuple(s, new_rel_oid, rel_name).ret.ok
        THEN AddNewRelationTuple(s, new_rel_oid, rel_name)
        ELSE AddNewAttributeTuples(AddNewRelationTuple(s, new_rel_oid, rel_name).s,
                                   tupledesc),
        new_rel_oid)

\* heap_create
HeapCreate(s, rel_name, new_rel_oid, tupledesc) ==
    HeapCreateAfterAttributes(AddNewAttributeTuples(s, tupledesc),
                              rel_name, new_rel_oid)

\* Initdb writes the initial empty pages of pg_class and pg_attribute.
InitdbAfterPgClass(h) ==
    IF ~h.ret.ok
    THEN h
    ELSE InitializeDefaultPageHeader(h.s, PG_ATTRIBUTE_RELATION_OID)

Initdb(s) == InitdbAfterPgClass(InitializeDefaultPageHeader(s, PG_CLASS_RELATION_OID))

(***************************************************************************)
(* Connection (src/src/postgres_protocol/mod.rs).  c is the connection     *)
(* within one operation: its stream, the number n of encode calls the      *)
(* operation has made, and the call fail_at at which the write to the      *)
(* socket fails (0: none).  commands::encode and the Message enum are not  *)
(* in src/src/postgres_protocol/commands.rs: encode writes the message it  *)
(* is given to the stream, or returns the error of the write.              *)
(***************************************************************************)
Message(type, tag) == [type |-> type, tag |-> tag]

\* commands::encode(&mut self.stream, message)
Encode(c, message) ==
    IF c.n + 1 = c.fail_at
    THEN [c |-> [c EXCEPT !.n = @ + 1,
                          !.stream = Append(@, [message |-> message, sent |-> FALSE])],
          ret |-> Err("Io")]
    ELSE [c |-> [c EXCEPT !.n = @ + 1,
                          !.stream = Append(@, [message |-> message, sent |-> TRUE])],
          ret |-> Ok(0)]

\* ready_for_query
ReadyForQuery(c) == Encode(c, Message("ReadyForQuery", 0))

\* command_complete that does not send ReadyForQuery.
CommandCompleteWithoutReady(e) == e

\* command_complete, after encode returned e
CommandCompleteAfterEncode(e) ==
    IF ~e.ret.ok THEN e ELSE ReadyForQuery(e.c)

\* command_complete
CommandComplete(c, tag) ==
    CommandCompleteAfterEncode(Encode(c, Message("CommandComplete", tag)))

\* send_result, after the encode of the DataRow returned e
SendResultAfterDataRow(e, rows) ==
    IF ~e.ret.ok THEN e ELSE CommandComplete(e.c, rows)

\* send_result, after the encode of the RowDescriptor returned e
SendResultAfterRowDescriptor(e, rows) ==
    IF ~e.ret.ok
    THEN e
    ELSE SendResultAfterDataRow(Encode(e.c, Message("DataRow", 0)), rows)

\* send_result; rows is result.tuples.len()
SendResult(c, rows) ==
    SendResultAfterRowDescriptor(Encode(c, Message("RowDescriptor", 0)), rows)

\* send_error
SendError(c) == Encode(c, Message("ErrorResponse", 0))

\* send_authentication_ok, after encode returned e
SendAuthenticationOkAfterEncode(e) ==
    IF ~e.ret.ok THEN e ELSE ReadyForQuery(e.c)

\* send_authentication_ok
SendAuthenticationOk(c) ==
    SendAuthenticationOkAfterEncode(Encode(c, Message("AuthenticationOk", 0)))

(***************************************************************************)
(* insert_into (src/src/commands/insert.rs).  An expression of a VALUES    *)
(* row is a literal (Expr::Value), here a number of 1..MaxDatum, or        *)
(* NonLiteral; a datum is the value of a literal or NullDatum (None).      *)
(* encode, Datums and HeapTuple::from_datums are not under src/: encode    *)
(* pushes the datum of the literal, and from_datums makes the tuple that   *)
(* holds the datums it is given, in order.                                 *)
(***************************************************************************)
NullDatum == 0
NonLiteral == MaxDatum + 1
TupleBase == 20000
LenShift == 1000

\* encode(&mut heap_values, &value)
EncodeValue(heap_values, value) == Append(heap_values, value)

\* HeapTuple::from_datums(heap_values): the tuple is told from every other by
\* the number of its datums and by each datum.
RECURSIVE DatumsCode(_, _)
DatumsCode(heap_values, i) ==
    IF i > Len(heap_values)
    THEN 0
    ELSE heap_values[i] + (MaxDatum + 1) * DatumsCode(heap_values, i + 1)

FromDatums(heap_values) ==
    TupleBase + LenShift * Len(heap_values) + DatumsCode(heap_values, 1)

\* columns.iter().position(|ident| ident.value == attr.attname); 0 for None
PositionOf(columns, attname) ==
    IF \E k \in 1..Len(columns) : columns[k] = attname
    THEN CHOOSE k \in 1..Len(columns) :
             /\ columns[k] = attname
             /\ \A j \in 1..(k - 1) : columns[j] # attname
    ELSE 0

\* insert_into, the loop over the attrs of the tuple descriptor from attr j
\* on, for one row
RECURSIVE RowValuesFrom(_, _, _, _, _)
RowValuesFrom(row, columns, attrs, j, heap_values) ==
    IF j > Len(attrs)
    THEN Ok(heap_values)
    ELSE IF PositionOf(columns, attrs[j].attname) = 0
         THEN RowValuesFrom(row, columns, attrs, j + 1, Append(heap_values, NullDatum))
         ELSE IF row[PositionOf(columns, attrs[j].attname)] = NonLiteral
              THEN Err("UnsupportedOperation")
              ELSE RowValuesFrom(row, columns, attrs, j + 1,
                       EncodeValue(heap_values,
                                   row[PositionOf(columns, attrs[j].attname)]))

\* insert_into, the loop over the rows of the VALUES list from row i on;
\* heap_values is made once, before the loop
RECURSIVE ValuesFrom(_, _, _, _, _)
ValuesFrom(rows, columns, attrs, i, heap_values) ==
    IF i > Len(rows)
    THEN Ok(heap_values)
    ELSE IF Len(rows[i]) # Len(columns)
         THEN Err("MoreExpressionsThanColumns")
         ELSE IF ~RowValuesFrom(rows[i], columns, attrs, 1, heap_values).ok
              THEN RowValuesFrom(rows[i], columns, attrs, 1, heap_values)
              ELSE ValuesFrom(rows, columns, attrs, i + 1,
                       RowValuesFrom(rows[i], columns, attrs, 1, heap_values).val)

\* insert_into, after the loop returned v: the one heap_insert
InsertIntoAfterValues(s, oid, v) ==
    IF ~v.ok
    THEN [s |-> s, ret |-> v]
    ELSE HeapInsert(s, oid, FromDatums(v.val))

\* insert_into, after tuple_desc_from_relation returned d
InsertIntoAfterTupleDesc(d, oid, columns, rows) ==
    IF ~d.ret.ok
    THEN d
    ELSE InsertIntoAfterValues(d.s, oid, ValuesFrom(rows, columns, d.ret.val, 1, <<>>))

\* insert_into, after get_pg_class_relation returned g
InsertIntoAfterPgClass(g, rel_name, columns, source) ==
    IF ~g.ret.ok
    THEN g
    ELSE IF source.kind # "Values"
         THEN [s |-> g.s, ret |-> Err("UnsupportedOperation")]
         ELSE InsertIntoAfterTupleDesc(TupleDescFromRelation(g.s, rel_name),
                                       g.ret.val.oid, columns, source.rows)

\* insert_into
InsertInto(s, rel_name, columns, source) ==
    InsertIntoAfterPgClass(GetPgClassRelation(s, rel_name), rel_name, columns, source)

(***************************************************************************)
(* The state machine.                                                      *)
(***************************************************************************)
\* The orders in which a HashMap may yield the values in S.
RECURSIVE Orders(_)
Orders(S) ==
    IF S = {}
    THEN {<<>>}
    ELSE UNION {{<<x>> \o o : o \in Orders(S \ {x})} : x \in S}

Resident(pt) == {pt[t] : t \in DOMAIN pt}

\* The builds the process may be: the one it has shown to be, if it has.
Builds == IF overflow_checks = "any" THEN {"on", "off"} ELSE {overflow_checks}

\* The state an operation starts from, with the storage failing after wb writes,
\* in a build whose overflow checks are oc.  written, wfailed and victims record the
\* pages the operation writes to storage, whether a write of it failed, and the
\* buffers its victim selections choose.
Start(wb, oc) ==
    [smgr |-> smgr, pages |-> pages, free_list |-> free_list, lru |-> lru,
     page_table |-> page_table, panicked |-> panicked, zero_order |-> zero_order,
     logical |-> logical, overflow_checks |-> oc, overflowed |-> FALSE,
     wbudget |-> wb, wfailed |-> FALSE, written |-> <<>>, victims |-> <<>>,
     scanner |-> scanner]

\* The step of an operation whose outcome is r.
Finish(r) ==
    /\ smgr' = r.s.smgr
    /\ pages' = r.s.pages
    /\ free_list' = r.s.free_list
    /\ lru' = r.s.lru
    /\ page_table' = r.s.page_table
    /\ panicked' = r.s.panicked
    /\ zero_order' = r.s.zero_order
    /\ logical' = r.s.logical
    /\ scanner' = r.s.scanner
    /\ overflow_checks' = IF r.s.overflowed THEN r.s.overflow_checks
                           ELSE overflow_checks
    /\ UNCHANGED <<table_capacity, stream>>

\* No operation of the model extends a file beyond MaxPages.
WithinBounds(r) == \A rel \in AllRels : Len(r.s.smgr[rel]) <= MaxPages

Init ==
    LET pool == BufferPoolNew(Capacity, [r \in AllRels |-> <<>>]) IN
    /\ smgr = pool.smgr
    /\ pages = pool.pages
    /\ free_list = pool.free_list
    /\ lru = pool.lru
    /\ page_table = pool.page_table
    /\ panicked = pool.panicked
    /\ table_capacity \in {Capacity, Capacity + 1}
    /\ overflow_checks = "any"
    /\ zero_order = <<>>
    /\ logical = pool.smgr
    /\ held = [b \in Frames |-> 0]
    /\ scanner = NoScanner
    /\ stream = <<>>

\* The outcomes of the operations, for each input of the environment: the
\* number wb of storage writes that succeed before the storage fails, the
\* build, the order in which the HashMap yields its values.  The operations
\* that unpin only a buffer they have pinned themselves cannot overflow the
\* refcount and do not depend on the build.
FetchOutcome(rel, page_num, wb) == FetchBuffer(Start(wb, overflow_checks), rel, page_num)
AllocOutcome(rel, wb) == AllocBuffer(Start(wb, overflow_checks), rel)
UnpinOutcome(buffer, is_dirty, oc) == UnpinBuffer(Start(0, oc), buffer, is_dirty)
FlushOutcome(buffer, wb) == FlushBuffer(Start(wb, overflow_checks), buffer)
FlushAllOutcome(order, wb) == FlushAllBuffers(Start(wb, overflow_checks), order)
InsertOutcome(rel, t, wb) == HeapInsert(Start(wb, overflow_checks), rel, t)
InitHeaderOutcome(rel, wb) ==
    InitializeDefaultPageHeader(Start(wb, overflow_checks), rel)

\* A storage that does not fail within one operation.
NoFault == Capacity + MaxPages + 2

\* The write budgets that give different outcomes, for an operation whose
\* outcome with a storage that does not fail is r: the storage fails at the
\* first, the second, ... of its writes, or not at all.
WriteBudgets(r) == 0..Len(r.s.written)

\* The pins the callers hold once a fetch_buffer or alloc_buffer of a caller
\* has returned ret.
HeldAfter(ret) == IF ret.ok THEN [held EXCEPT ![ret.val] = @ + 1] ELSE held

\* The step of a caller's fetch_buffer or alloc_buffer whose outcome is r.
FinishPinned(r) == Finish(r) /\ held' = HeldAfter(r.ret)

\* The step of an operation that pins nothing for its caller.
FinishUnpinned(r) == Finish(r) /\ UNCHANGED held

\* A caller pins a page of a relation.
CanFetch(rel, page_num) ==
    /\ ~panicked
    /\ BufferTagNew(page_num, rel) \in DOMAIN page_table
          => pages[page_table[BufferTagNew(page_num, rel)]].refcount < MaxPins

Fetch(rel, page_num) ==
    /\ CanFetch(rel, page_num)
    /\ \E wb \in 0..1 : FinishPinned(FetchOutcome(rel, page_num, wb))

\* A caller extends a relation and pins the new page.
CanAlloc(rel) == ~panicked /\ Len(smgr[rel]) < MaxPages

Alloc(rel) ==
    /\ CanAlloc(rel)
    /\ \E wb \in 0..1 : FinishPinned(AllocOutcome(rel, wb))

\* A caller releases a pin it holds.
CanUnpin(buffer) == ~panicked /\ held[buffer] > 0

Unpin(buffer, is_dirty) ==
    /\ CanUnpin(buffer)
    /\ held' = [held EXCEPT ![buffer] = @ - 1]
    /\ \E oc \in Builds : Finish(UnpinOutcome(buffer, is_dirty, oc))

\* A caller flushes a buffer that holds a page of the table.
CanFlush(buffer) == ~panicked /\ buffer \in Resident(page_table)

Flush(buffer) ==
    /\ CanFlush(buffer)
    /\ \E wb \in 0..1 : FinishUnpinned(FlushOutcome(buffer, wb))

FlushAll ==
    /\ ~panicked
    /\ \E order \in Orders(Resident(page_table)) :
         \E wb \in WriteBudgets(FlushAllOutcome(order, NoFault)) :
           FinishUnpinned(FlushAllOutcome(order, wb))

\* A caller inserts a tuple into a relation.
CanInsert(rel, t) == ~panicked /\ WithinBounds(InsertOutcome(rel, t, NoFault))

Insert(rel, t) ==
    /\ CanInsert(rel, t)
    /\ \E wb \in WriteBudgets(InsertOutcome(rel, t, NoFault)) :
           FinishUnpinned(InsertOutcome(rel, t, wb))

\* A caller initializes a new page of a relation.
InitHeader(rel) ==
    /\ CanAlloc(rel)
    /\ \E wb \in WriteBudgets(InitHeaderOutcome(rel, NoFault)) :
           FinishUnpinned(InitHeaderOutcome(rel, wb))

\* The outcomes of the scanner's operations.
ScanNewOutcome(rel, wb) == HeapScannerNew(Start(wb, overflow_checks), rel)
ScanNextOutcome(decodes, oc) == NextTuple(Start(0, oc), decodes)
HeapScanOutcome(rel, fail_at, wb) ==
    HeapScan(Start(wb, overflow_checks), rel, fail_at)

\* No scan of the model takes a refcount out of these bounds.
PinsWithinBounds(r) ==
    \A b \in Frames :
        /\ r.s.pages[b].refcount <= MaxPins
        /\ r.s.pages[b].refcount >= 0 - MaxExtraNext

\* The caller makes a HeapScanner; it has one at a time.
CanScanNew(rel) == CanFetch(rel, 1) /\ scanner.state # "open"

ScanNew(rel) ==
    /\ CanScanNew(rel)
    /\ \E wb \in 0..1 :
           /\ PinsWithinBounds(ScanNewOutcome(rel, wb))
           /\ FinishUnpinned(ScanNewOutcome(rel, wb))

\* The caller calls next() on its scanner, at most MaxExtraNext times after
\* the scanner returned None.
CanScanNext ==
    ~panicked /\ scanner.state = "open" /\ scanner.unpins <= MaxExtraNext

ScanNext ==
    /\ CanScanNext
    /\ \E decodes \in BOOLEAN, oc \in Builds :
           /\ PinsWithinBounds(ScanNextOutcome(decodes, oc))
           /\ FinishUnpinned(ScanNextOutcome(decodes, oc))

\* The caller drops its scanner: HeapScanner has no Drop implementation.
ScanDrop ==
    /\ ~panicked
    /\ scanner.state = "open"
    /\ scanner' = [scanner EXCEPT !.state = "dropped"]
    /\ UNCHANGED <<smgr, pages, free_list, lru, page_table, table_capacity,
                   overflow_checks, panicked, zero_order, logical, held, stream>>

\* The caller scans a relation with heap_scan.
Scan(rel) ==
    /\ CanFetch(rel, 1)
    /\ \E fail_at \in 0..MaxItems, wb \in 0..1 :
           /\ PinsWithinBounds(HeapScanOutcome(rel, fail_at, wb))
           /\ FinishUnpinned(HeapScanOutcome(rel, fail_at, wb))

Next ==
    \/ \E rel \in Rels, page_num \in PageNumbers : Fetch(rel, page_num)
    \/ \E rel \in Rels : Alloc(rel)
    \/ \E buffer \in Frames, is_dirty \in BOOLEAN : Unpin(buffer, is_dirty)
    \/ \E buffer \in Frames : Flush(buffer)
    \/ FlushAll
    \/ \E rel \in Rels, t \in Tuples : Insert(rel, t)
    \/ \E rel \in Rels : InitHeader(rel)

Spec == Init /\ [][Next]_vars

\* The callers of the heap: pages are initialized, tuples are inserted, and
\* relations are scanned, with heap_scan or with a HeapScanner of the caller.
NextScan ==
    \/ \E rel \in Rels : InitHeader(rel)
    \/ \E rel \in Rels, t \in Tuples : Insert(rel, t)
    \/ \E rel \in Rels : ScanNew(rel)
    \/ ScanNext
    \/ ScanDrop
    \/ \E rel \in Rels : Scan(rel)

ScanSpec == Init /\ [][NextScan]_vars

\* The write budgets of the catalog's callers: the storage fails at the first
\* write of an operation, or not at all.
FirstWriteOrNone == {0, NoFault}

\* The outcomes of the catalog's operations.
InitdbOutcome(wb) == Initdb(Start(wb, overflow_checks))
HeapCreateOutcome(rel_name, new_rel_oid, tupledesc, wb) ==
    HeapCreate(Start(wb, overflow_checks), rel_name, new_rel_oid, tupledesc)
GetPgClassOutcome(rel_name, wb) ==
    GetPgClassRelation(Start(wb, overflow_checks), rel_name)
TupleDescOutcome(rel_name, wb) ==
    TupleDescFromRelation(Start(wb, overflow_checks), rel_name)

\* The attributes a and b of the callers' relations, and the tuple
\* descriptors heap_create is called with.
Attribute(attrelid, n) == [attrelid |-> attrelid, attnum |-> n, attname |-> n]

TupleDescs(new_rel_oid) ==
    {<<>>,
     <<Attribute(new_rel_oid, 1)>>,
     <<Attribute(new_rel_oid, 1), Attribute(new_rel_oid, 2)>>,
     <<Attribute(new_rel_oid, 2), Attribute(new_rel_oid, 1)>>}

\* The database directory is created: the catalog relations have no page yet.
CanInitdb ==
    /\ ~panicked
    /\ Len(smgr[PG_CLASS_RELATION_OID]) = 0
    /\ Len(smgr[PG_ATTRIBUTE_RELATION_OID]) = 0

InitdbStep ==
    /\ CanInitdb
    /\ \E wb \in FirstWriteOrNone :
           FinishUnpinned(InitdbOutcome(wb))

\* No operation of the catalog's callers extends a file beyond MaxCatalogPages.
WithinCatalogBounds(r) ==
    \A rel \in AllRels : Len(r.s.smgr[rel]) <= MaxCatalogPages

\* A caller creates a relation.
CanCreate(rel_name, new_rel_oid, tupledesc) ==
    /\ ~panicked
    /\ WithinCatalogBounds(HeapCreateOutcome(rel_name, new_rel_oid, tupledesc, NoFault))

Create(rel_name, new_rel_oid, tupledesc) ==
    /\ CanCreate(rel_name, new_rel_oid, tupledesc)
    /\ \E wb \in FirstWriteOrNone :
           FinishUnpinned(HeapCreateOutcome(rel_name, new_rel_oid, tupledesc, wb))

\* A caller looks a relation up by its name.
Lookup(rel_name) ==
    /\ ~panicked
    /\ \E wb \in FirstWriteOrNone :
           FinishUnpinned(GetPgClassOutcome(rel_name, wb))

\* A caller asks for the tuple descriptor of a relation.
Describe(rel_name) ==
    /\ ~panicked
    /\ \E wb \in FirstWriteOrNone :
           FinishUnpinned(TupleDescOutcome(rel_name, wb))

\* The callers of the catalog.
NextCatalog ==
    \/ InitdbStep
    \/ \E rel_name \in Names, new_rel_oid \in Oids :
         \E tupledesc \in TupleDescs(new_rel_oid) :
             Create(rel_name, new_rel_oid, tupledesc)
    \/ \E rel_name \in Names : Lookup(rel_name)
    \/ \E rel_name \in Names : Describe(rel_name)

CatalogSpec == Init /\ [][NextCatalog]_vars

\* The callers that create relations and look nothing up.
NextCreate ==
    \/ InitdbStep
    \/ \E rel_name \in Names, new_rel_oid \in Oids :
         \E tupledesc \in TupleDescs(new_rel_oid) :
             Create(rel_name, new_rel_oid, tupledesc)

CreateSpec == Init /\ [][NextCreate]_vars

\* The statements of the callers of insert_into: the column lists, the rows
\* (the expression at place k of a row is the literal k or NonLiteral), and
\* the sources: VALUES lists of 1..MaxValuesRows rows, and a query that is
\* no VALUES list.
ColumnLists == {<<1>>, <<1, 2>>, <<2, 1>>}

RowsOf ==
    UNION {{row \in [1..n -> (1..MaxDatum) \cup {NonLiteral}] :
               \A k \in 1..n : row[k] \in {k, NonLiteral}} : n \in 1..MaxDatum}

Sources ==
    {[kind |-> "Select", rows |-> <<>>]}
    \cup UNION {{[kind |-> "Values", rows |-> rows] : rows \in [1..n -> RowsOf]} :
                   n \in 1..MaxValuesRows}

InsertIntoOutcome(rel_name, columns, source, wb) ==
    InsertInto(Start(wb, overflow_checks), rel_name, columns, source)

\* No insert_into of the model leaves more than MaxStored tuples in a relation.
WithinStored(r) ==
    \A oid \in Oids :
        Cardinality({pl \in (1..Len(r.s.logical[oid])) \X (1..MaxStored + 1) :
                        pl[2] <= Len(r.s.logical[oid][pl[1]].items)}) <= MaxStored

\* A caller inserts rows into a relation.
CanInsertInto(rel_name, columns, source) ==
    /\ ~panicked
    /\ WithinCatalogBounds(InsertIntoOutcome(rel_name, columns, source, NoFault))
    /\ WithinStored(InsertIntoOutcome(rel_name, columns, source, NoFault))

InsertIntoStep(rel_name, columns, source) ==
    /\ CanInsertInto(rel_name, columns, source)
    /\ \E wb \in FirstWriteOrNone :
           FinishUnpinned(InsertIntoOutcome(rel_name, columns, source, wb))

\* A caller creates the table of the statements, unless it is there.
CreateTable ==
    /\ ~GetPgClassOutcome(1, NoFault).ret.ok
    /\ \E tupledesc \in TupleDescs(1) : Create(1, 1, tupledesc)

\* The statements on one table.
NextInsert ==
    \/ InitdbStep
    \/ CreateTable
    \/ \E rel_name \in Names, columns \in ColumnLists, source \in Sources :
           InsertIntoStep(rel_name, columns, source)

InsertSpec == Init /\ [][NextInsert]_vars

\* The connection an operation starts from, the write failing at encode call
\* fail_at of the operation (0: at none).
StartConn(fail_at) == [stream |-> stream, n |-> 0, fail_at |-> fail_at]

\* The encode calls one operation makes at most.
FailPoints == 0..4

\* The outcomes of the connection's operations.
SendResultOutcome(rows, fail_at) == SendResult(StartConn(fail_at), rows)
SendErrorOutcome(fail_at) == SendError(StartConn(fail_at))
CommandCompleteOutcome(tag, fail_at) == CommandComplete(StartConn(fail_at), tag)
ReadyForQueryOutcome(fail_at) == ReadyForQuery(StartConn(fail_at))
SendAuthenticationOkOutcome(fail_at) == SendAuthenticationOk(StartConn(fail_at))

\* The step of an operation of the connection handler whose outcome is r.
FinishConn(r) ==
    /\ Len(r.c.stream) <= MaxStream
    /\ Cardinality({i \in 1..Len(r.c.stream) : ~r.c.stream[i].sent}) <= MaxFailures
    /\ stream' = r.c.stream
    /\ UNCHANGED poolvars

SendResultStep ==
    \E rows \in 0..MaxRows, fail_at \in FailPoints :
        FinishConn(SendResultOutcome(rows, fail_at))

SendErrorStep == \E fail_at \in FailPoints : FinishConn(SendErrorOutcome(fail_at))

CommandCompleteStep ==
    \E tag \in 0..MaxRows, fail_at \in FailPoints :
        FinishConn(CommandCompleteOutcome(tag, fail_at))

ReadyForQueryStep ==
    \E fail_at \in FailPoints : FinishConn(ReadyForQueryOutcome(fail_at))

SendAuthenticationOkStep ==
    \E fail_at \in FailPoints : FinishConn(SendAuthenticationOkOutcome(fail_at))

\* The connection handler.
NextConn ==
    \/ SendResultStep
    \/ SendErrorStep
    \/ CommandCompleteStep
    \/ ReadyForQueryStep
    \/ SendAuthenticationOkStep

ConnSpec == Init /\ [][NextConn]_vars

(***************************************************************************)
(* Properties.                                                             *)
(***************************************************************************)
InSeq(x, seq) == \E i \in 1..Len(seq) : seq[i] = x

Tags == {BufferTagNew(page_num, rel) : page_num \in PageNumbers, rel \in Rels}

\* The page exists in storage.
Stored(tag) == tag[2] \in 1..Len(smgr[tag[1]])

\* The page has been modified: it holds tuples.
HasItems(page) == Len(page.items) > 0

\* A page that exists and holds tuples is not in the table: it was evicted.
SomeModifiedPageEvicted ==
    \E tag \in Tags :
        /\ Stored(tag)
        /\ tag \notin DOMAIN page_table
        /\ HasItems(logical[tag[1]][tag[2]])

\* C1: a frame with refcount > 0 is not eligible for victim selection (it is
\* not in the replacer), and no step rebinds it: its tag, its relation and its
\* page_table entry are the same after the step as before.
C1_PinnedFrameNotRebound ==
    [][\A b \in Frames :
          pages[b].refcount # 0 =>
              /\ ~InSeq(b, lru)
              /\ pages'[b].tag = pages[b].tag
              /\ pages'[b].rel = pages[b].rel
              /\ \A tag \in DOMAIN page_table :
                     page_table[tag] = b =>
                         tag \in DOMAIN page_table' /\ page_table'[tag] = b]_vars

\* C1 witness: every frame is in use, a frame has been pinned ever since it was
\* taken from free_list (it was never unpinned to refcount 0), and a victim
\* selection has evicted a page since.
C1_Witness ==
    /\ free_list = <<>>
    /\ SomeModifiedPageEvicted
    /\ \E b \in Frames : pages[b].refcount # 0 /\ ~InSeq(b, zero_order)

UnpinnedInOrder == SelectSeq(zero_order, LAMBDA b : pages[b].refcount = 0)

VictimIsOldestUnpinned(r) ==
    r.s.victims # <<>> =>
        /\ UnpinnedInOrder # <<>>
        /\ r.s.victims[1] = UnpinnedInOrder[1]

\* C3: in every reachable state, a fetch_buffer or alloc_buffer that evicts
\* chooses as victim, among all frames with refcount 0, the one whose latest
\* transition to refcount 0 by unpin_buffer is the earliest; and an
\* unpin_buffer that brings a refcount to 0 puts the frame at the
\* most-recently-used end of lru.
C3_VictimIsLeastRecentlyUnpinned ==
    /\ \A rel \in Rels, page_num \in PageNumbers, wb \in 0..1 :
          CanFetch(rel, page_num)
              => VictimIsOldestUnpinned(FetchOutcome(rel, page_num, wb))
    /\ \A rel \in Rels, wb \in 0..1 :
          CanAlloc(rel) => VictimIsOldestUnpinned(AllocOutcome(rel, wb))
    /\ \A buffer \in Frames, is_dirty \in BOOLEAN, oc \in Builds :
          /\ CanUnpin(buffer)
          /\ UnpinOutcome(buffer, is_dirty, oc).s.pages[buffer].refcount = 0
          => /\ UnpinOutcome(buffer, is_dirty, oc).s.lru # <<>>
             /\ UnpinOutcome(buffer, is_dirty, oc).s.lru[
                    Len(UnpinOutcome(buffer, is_dirty, oc).s.lru)] = buffer

\* What victim does with the page of the buffer it has chosen, in an operation
\* whose outcome is r: a dirty page is written to storage under its own tag and
\* is in storage when the tag has left the table or the descriptor; a clean
\* page is not written.
VictimWrittenBack(r) ==
    r.s.victims # <<>> =>
        LET v == r.s.victims[1]
            tag == pages[v].tag
        IN  /\ pages[v].is_dirty =>
                 /\ r.s.written = <<tag>> \/ (r.s.wfailed /\ r.s.written = <<>>)
                 /\ (tag \notin DOMAIN r.s.page_table \/ r.s.pages[v].tag # tag)
                       => r.s.smgr[tag[1]][tag[2]] = pages[v].page
            /\ ~pages[v].is_dirty => r.s.written = <<>> /\ ~r.s.wfailed

\* A successful fetch_buffer returns the page as it was last modified.
FetchReturnsLogical(r, rel, page_num) ==
    r.ret.ok => r.s.pages[r.ret.val].page = logical[rel][page_num]

\* C4: a dirty victim is written to storage at its own (relation, page) before
\* its tag is removed or rebound and a clean victim is not written; so a page
\* that is not in the table is in storage as it was last modified through the
\* pool, and fetching it again returns the modified bytes.
C4_DirtyVictimWrittenBack ==
    /\ \A tag \in Tags :
          Stored(tag) /\ tag \notin DOMAIN page_table
              => smgr[tag[1]][tag[2]] = logical[tag[1]][tag[2]]
    /\ \A rel \in Rels, page_num \in PageNumbers, wb \in 0..1 :
          CanFetch(rel, page_num)
              => /\ VictimWrittenBack(FetchOutcome(rel, page_num, wb))
                 /\ FetchReturnsLogical(FetchOutcome(rel, page_num, wb),
                                        rel, page_num)
    /\ \A rel \in Rels, wb \in 0..1 :
          CanAlloc(rel) => VictimWrittenBack(AllocOutcome(rel, wb))

\* C4 witness: a page that was modified, evicted while dirty and fetched again
\* is in the table with is_dirty clear and with the modified contents.
C4_Witness ==
    \E b \in Resident(page_table) :
        /\ ~pages[b].is_dirty
        /\ HasItems(pages[b].page)
        /\ pages[b].page = logical[pages[b].tag[1]][pages[b].tag[2]]

\* The block of storage that holds the page of a tag.
Block(tag) == smgr[tag[1]][tag[2]]

\* C5: every frame in page_table whose is_dirty is clear holds the bytes of the
\* block of its (relation, page_number) in storage.
C5_CleanFrameEqualsStorage ==
    \A tag \in DOMAIN page_table :
        ~pages[page_table[tag]].is_dirty =>
            Stored(tag) /\ pages[page_table[tag]].page = Block(tag)

FlushedAndClean(r, buffer) ==
    r.ret.ok =>
        /\ r.s.smgr[r.s.pages[buffer].tag[1]][r.s.pages[buffer].tag[2]]
              = r.s.pages[buffer].page
        /\ ~r.s.pages[buffer].is_dirty

\* C6: in every reachable state, a flush_buffer(b) that returns successfully
\* leaves the block of frame b in storage equal to the frame's page and the
\* frame's is_dirty false.
C6_FlushWritesAndCleans ==
    \A buffer \in Frames, wb \in 0..1 :
        CanFlush(buffer) => FlushedAndClean(FlushOutcome(buffer, wb), buffer)

AllFlushedDirtyOnly(r) ==
    r.ret.ok =>
        /\ \A tag \in DOMAIN r.s.page_table :
              /\ ~r.s.pages[r.s.page_table[tag]].is_dirty
              /\ r.s.pages[r.s.page_table[tag]].page = r.s.smgr[tag[1]][tag[2]]
        /\ \A i \in 1..Len(r.s.written) :
              /\ r.s.written[i] \in DOMAIN page_table
              /\ pages[page_table[r.s.written[i]]].is_dirty

\* C7: in every reachable state, flush_all writes the frames of page_table
\* whose is_dirty is set and no others, and when it has returned successfully
\* no frame of page_table is dirty and each holds the bytes of its block in
\* storage.
C7_FlushAllWritesDirtyAndCleans ==
    ~panicked =>
        \A order \in Orders(Resident(page_table)) :
            AllFlushedDirtyOnly(FlushAllOutcome(order, NoFault))

\* A storage write that fails within an operation whose outcome is r is
\* returned to the caller as an error value, and every frame that was dirty
\* keeps its page, its tag and its is_dirty.
WriteFailureReported(r) ==
    r.s.wfailed =>
        /\ ~r.ret.ok
        /\ r.ret.err = "ShortWrite"
        /\ ~r.s.panicked
        /\ \A b \in Frames :
              pages[b].is_dirty =>
                  /\ r.s.pages[b].is_dirty
                  /\ r.s.pages[b].tag = pages[b].tag
                  /\ r.s.pages[b].page = pages[b].page

\* C8: in every reachable state, when the storage write fails during a flush
\* (flush_buffer called directly, flush_all, the flush of a dirty victim in
\* fetch_buffer or alloc_buffer), the error is returned to the caller and
\* is_dirty stays set.
C8_FailedFlushKeepsDirty ==
    /\ \A buffer \in Frames, wb \in 0..1 :
          CanFlush(buffer) => WriteFailureReported(FlushOutcome(buffer, wb))
    /\ ~panicked =>
          \A order \in Orders(Resident(page_table)) :
              \A wb \in WriteBudgets(FlushAllOutcome(order, NoFault)) :
                  WriteFailureReported(FlushAllOutcome(order, wb))
    /\ \A rel \in Rels, page_num \in PageNumbers, wb \in 0..1 :
          CanFetch(rel, page_num)
              => WriteFailureReported(FetchOutcome(rel, page_num, wb))
    /\ \A rel \in Rels, wb \in 0..1 :
          CanAlloc(rel) => WriteFailureReported(AllocOutcome(rel, wb))

\* C8 witness: the flush of a dirty victim has failed: the frame has left the
\* replacer and is still in page_table, unpinned and dirty, and storage does
\* not have its page.
C8_Witness ==
    \E b \in Resident(page_table) :
        /\ pages[b].refcount = 0
        /\ ~InSeq(b, lru)
        /\ pages[b].is_dirty
        /\ pages[b].page # Block(pages[b].tag)

\* The pool is exhausted by pinned frames.
AllPinned == free_list = <<>> /\ \A b \in Frames : pages[b].refcount # 0

ReturnsNoFreeBuffer(r) ==
    ~r.s.panicked /\ ~r.ret.ok /\ r.ret.err = "NoFreeBuffer"

PanicsUnchanged(r) ==
    /\ r.s.panicked
    /\ ~r.ret.ok
    /\ r.ret.err \in {"NoVictim", "ExceededCapacity"}
    /\ r.s.pages = pages
    /\ r.s.lru = lru
    /\ r.s.page_table = page_table
    /\ r.s.free_list = free_list

RefcountsRestored(r) ==
    ~r.s.panicked => \A b \in Frames : r.s.pages[b].refcount = pages[b].refcount

\* C10: in every reachable state, every frame's refcount when heap_insert
\* returns, with success or with an error, is its refcount before the call.
C10_HeapInsertRestoresRefcounts ==
    \A rel \in Rels, t \in Tuples :
        CanInsert(rel, t) =>
            \A wb \in WriteBudgets(InsertOutcome(rel, t, NoFault)) :
                RefcountsRestored(InsertOutcome(rel, t, wb))

\* C11: a HeapScanner calls unpin_buffer for the page it pinned exactly once
\* over its lifetime: never more than once, however often next() is called
\* after the scan is exhausted, and once by the time it has been dropped.
C11_ScannerUnpinsExactlyOnce ==
    /\ scanner.unpins <= 1
    /\ scanner.state = "dropped" => scanner.unpins = 1

\* The places of the tuples of a relation: page and item number.
TuplePlaces(rel) ==
    UNION {{<<p, i>> : i \in 1..Len(logical[rel][p].items)} :
               p \in 1..Len(logical[rel])}

\* How often tuple t has been inserted into rel, and how often it is in tuples.
TimesInserted(rel, t) ==
    Cardinality({pl \in TuplePlaces(rel) :
                    logical[rel][pl[1]].items[pl[2]].tuple = t})

TimesIn(tuples, t) == Cardinality({i \in 1..Len(tuples) : tuples[i] = t})

\* The relation has been created: its first page has a page header.
Created(rel) ==
    /\ Len(logical[rel]) >= 1
    /\ logical[rel][1].start_free_space >= PAGE_HEADER_SIZE

\* C12: in every reachable state, heap_scan of a created relation, when every
\* tuple decodes and the storage does not fail, yields exactly the multiset of
\* the tuples inserted into the relation, on whatever page they were placed.
C12_ScanYieldsInsertedTuples ==
    \A rel \in Rels :
        /\ CanFetch(rel, 1)
        /\ Created(rel)
        /\ HeapScanOutcome(rel, 0, NoFault).ret.ok
        => \A t \in Tuples :
              TimesIn(HeapScanOutcome(rel, 0, NoFault).ret.val, t)
                  = TimesInserted(rel, t)

YieldsNoTuple(r) == ~(r.ret.ok /\ r.ret.val # 0)

\* C13: once a yield of a HeapScanner has failed, every later call of next()
\* on that scanner returns no tuple.
C13_FailedYieldEndsScan ==
    CanScanNext /\ scanner.failed =>
        \A decodes \in BOOLEAN, oc \in Builds :
            YieldsNoTuple(ScanNextOutcome(decodes, oc))

\* C14: in every reachable state of a pool created with capacity N,
\* page_table has at most N entries, and the entries of page_table and the
\* members of free_list are together at most N.
C14_TableAndFreeListWithinCapacity ==
    /\ Cardinality(DOMAIN page_table) <= Capacity
    /\ Cardinality(DOMAIN page_table) + Len(free_list) <= Capacity

\* C14 witness: every frame holds a page of page_table, free_list is empty
\* and a page that was resident has been evicted.
C14_Witness ==
    /\ Cardinality(DOMAIN page_table) = Capacity
    /\ Len(free_list) = 0
    /\ SomeModifiedPageEvicted

\* C15: after every buffer-pool operation, failed ones included, a frame is
\* the value of some page_table entry if and only if its tag is not the
\* default tag and its rel is bound.
C15_InTableIffBound ==
    \A b \in Frames :
        b \in Resident(page_table)
            <=> (pages[b].tag # BufferTagDefault /\ pages[b].rel # NoRel)

\* The frames whose is_dirty flag is set before an operation and clear in
\* its outcome r.
Cleaned(r) == {b \in Frames : pages[b].is_dirty /\ ~r.s.pages[b].is_dirty}

\* The frames an operation with outcome r has flushed.
Flushed(r) == {b \in Frames : InSeq(pages[b].tag, r.s.written)}

\* The frames an operation with outcome r has taken as victims, to rebind them.
Rebound(r) == {b \in Frames : InSeq(b, r.s.victims)}

\* C16: in every reachable state, unpin_buffer(b, was_dirtied) sets is_dirty
\* of b to (old is_dirty OR was_dirtied) and leaves the flag of every other
\* frame; a fetch_buffer hit leaves every flag unchanged; no operation clears
\* a set flag of a frame other than a flush of that frame or the rebinding of
\* the frame, taken as victim, to a newly loaded page.
C16_DirtyFlagMonotonic ==
    /\ \A b \in Frames, was_dirtied \in BOOLEAN, oc \in Builds :
          CanUnpin(b) =>
              \A f \in Frames :
                  UnpinOutcome(b, was_dirtied, oc).s.pages[f].is_dirty
                      = (pages[f].is_dirty \/ (f = b /\ was_dirtied))
    /\ \A rel \in Rels, page_num \in 1..MaxPages, wb \in 0..1 :
          CanFetch(rel, page_num) =>
              /\ BufferTagNew(page_num, rel) \in DOMAIN page_table =>
                    \A f \in Frames :
                        FetchOutcome(rel, page_num, wb).s.pages[f].is_dirty
                            = pages[f].is_dirty
              /\ Cleaned(FetchOutcome(rel, page_num, wb))
                    \subseteq Rebound(FetchOutcome(rel, page_num, wb))
    /\ \A rel \in Rels, wb \in 0..1 :
          CanAlloc(rel) =>
              Cleaned(AllocOutcome(rel, wb)) \subseteq Rebound(AllocOutcome(rel, wb))
    /\ \A b \in Frames, wb \in 0..1 :
          CanFlush(b) => Cleaned(FlushOutcome(b, wb)) \subseteq {b}
    /\ \A order \in Orders(Resident(page_table)) :
          ~panicked =>
              \A wb \in WriteBudgets(FlushAllOutcome(order, NoFault)) :
                  Cleaned(FlushAllOutcome(order, wb))
                      \subseteq Flushed(FlushAllOutcome(order, wb))
    /\ \A rel \in Rels, t \in Tuples :
          CanInsert(rel, t) =>
              \A wb \in WriteBudgets(InsertOutcome(rel, t, NoFault)) :
                  Cleaned(InsertOutcome(rel, t, wb))
                      \subseteq Rebound(InsertOutcome(rel, t, wb))
    /\ \A rel \in Rels :
          CanAlloc(rel) =>
              \A wb \in WriteBudgets(InitHeaderOutcome(rel, NoFault)) :
                  Cleaned(InitHeaderOutcome(rel, wb))
                      \subseteq Rebound(InitHeaderOutcome(rel, wb))
                          \cup Flushed(InitHeaderOutcome(rel, wb))

\* C16 witness: a caller holds a pin on a resident frame whose flag an earlier
\* unpin_buffer(b, true) has set, and a modified page has been evicted.
C16_Witness ==
    /\ \E b \in Resident(page_table) : pages[b].is_dirty /\ held[b] > 0
    /\ SomeModifiedPageEvicted

\* The tuples of a relation in scan order: page order, then item-id order.
RECURSIVE TuplesFrom(_, _)
TuplesFrom(file, p) ==
    IF p > Len(file) THEN <<>> ELSE PageTuples(file[p]) \o TuplesFrom(file, p + 1)

StoredTuples(rel) == TuplesFrom(logical[rel], 1)

\* The places in pg_class, in scan order, of the tuples with a relname.
MatchesOf(rel_name) ==
    {i \in 1..Len(StoredTuples(PG_CLASS_RELATION_OID)) :
        DeserializePgClass(StoredTuples(PG_CLASS_RELATION_OID)[i]).relname = rel_name}

FirstMatch(rel_name) ==
    DeserializePgClass(StoredTuples(PG_CLASS_RELATION_OID)[
        CHOOSE i \in MatchesOf(rel_name) : \A j \in MatchesOf(rel_name) : i <= j])

\* The lookup ran to its end: the thread did not panic for want of a frame.
Completed(r) == ~panicked /\ ~r.s.panicked

\* C17: in every reachable state, get_pg_class_relation(name) on a storage
\* that does not fail returns the PgClass of the first pg_class tuple in scan
\* order whose relname is name, and RelationNotFound(name) if and only if no
\* pg_class tuple has that relname.
C17_LookupReturnsFirstMatch ==
    \A rel_name \in Names :
        Completed(GetPgClassOutcome(rel_name, NoFault)) =>
            IF MatchesOf(rel_name) = {}
            THEN GetPgClassOutcome(rel_name, NoFault).ret = RelationNotFound(rel_name)
            ELSE /\ GetPgClassOutcome(rel_name, NoFault).ret.ok
                 /\ GetPgClassOutcome(rel_name, NoFault).ret.val = FirstMatch(rel_name)

\* C17 witness: heap_create has succeeded twice with one relname and two
\* oids, no relation has the other name, and the lookups run to their end.
C17_Witness ==
    /\ \E rel_name \in Names :
          /\ \E i, j \in MatchesOf(rel_name) :
                StoredTuples(PG_CLASS_RELATION_OID)[i]
                    # StoredTuples(PG_CLASS_RELATION_OID)[j]
          /\ \E other \in Names : MatchesOf(other) = {}
    /\ \A rel_name \in Names : Completed(GetPgClassOutcome(rel_name, NoFault))
    /\ \A oid \in Oids :
          Len(logical[oid]) >= 1 /\ logical[oid][1].start_free_space >= PAGE_HEADER_SIZE

\* The pg_attribute tuples of a relation, as a set of places in scan order.
AttributePlaces(oid) ==
    {i \in 1..Len(StoredTuples(PG_ATTRIBUTE_RELATION_OID)) :
        DeserializePgAttribute(StoredTuples(PG_ATTRIBUTE_RELATION_OID)[i]).attrelid = oid}

\* attrs holds exactly the pg_attribute tuples of the relation.
ExactlyAttributesOf(attrs, oid) ==
    \A a \in {DeserializePgAttribute(StoredTuples(PG_ATTRIBUTE_RELATION_OID)[i]) :
                  i \in 1..Len(StoredTuples(PG_ATTRIBUTE_RELATION_OID))}
             \cup {attrs[i] : i \in 1..Len(attrs)} :
        Cardinality({i \in 1..Len(attrs) : attrs[i] = a})
            = Cardinality({i \in AttributePlaces(oid) :
                  DeserializePgAttribute(StoredTuples(PG_ATTRIBUTE_RELATION_OID)[i]) = a})

SortedByAttnum(attrs) ==
    \A i, j \in 1..Len(attrs) : i < j => attrs[i].attnum <= attrs[j].attnum

\* C18: in every reachable state, a tuple_desc_from_relation(name) that
\* succeeds returns exactly the pg_attribute tuples whose attrelid is the oid
\* resolved for name, ordered by attnum ascending.
C18_TupleDescSortedByAttnum ==
    \A rel_name \in Names :
        /\ Completed(TupleDescOutcome(rel_name, NoFault))
        /\ TupleDescOutcome(rel_name, NoFault).ret.ok
        => /\ ExactlyAttributesOf(TupleDescOutcome(rel_name, NoFault).ret.val,
                                  FirstMatch(rel_name).oid)
           /\ SortedByAttnum(TupleDescOutcome(rel_name, NoFault).ret.val)

\* The encoding of the tuple is longer than a page can hold.
Oversized(t) == EncodedLen(t) > PAGE_SIZE - PAGE_HEADER_SIZE - ITEM_ID_SIZE

\* The operation with outcome r has added no item id to a page of rel, in
\* the pool or in storage: a page of storage holds what it held, or what an
\* eviction wrote back of the page's items before the operation.
StoresNothing(r, rel) ==
    /\ \A p \in 1..Len(r.s.logical[rel]) :
          r.s.logical[rel][p].items
              = IF p <= Len(logical[rel]) THEN logical[rel][p].items ELSE <<>>
    /\ \A p \in 1..Len(r.s.smgr[rel]) :
          \/ r.s.smgr[rel][p].items
                = IF p <= Len(smgr[rel]) THEN smgr[rel][p].items ELSE <<>>
          \/ p <= Len(logical[rel]) /\ r.s.smgr[rel][p].items = logical[rel][p].items
    /\ \A b \in Frames :
          r.s.pages[b].rel = rel /\ HasItems(r.s.pages[b].page) =>
              \E p \in 1..Len(logical[rel]) :
                  r.s.pages[b].page.items = logical[rel][p].items

\* C19: in every reachable state, a heap_insert of a tuple whose encoding is
\* longer than PAGE_SIZE - PAGE_HEADER_SIZE - ITEM_ID_SIZE that returns,
\* returns an error, and no item id is added to any page of the relation.
C19_OversizedTupleRejected ==
    \A rel \in Rels, t \in Tuples :
        CanInsert(rel, t) /\ Oversized(t) =>
            \A wb \in WriteBudgets(InsertOutcome(rel, t, NoFault)) :
                /\ ~InsertOutcome(rel, t, wb).ret.ok
                /\ StoresNothing(InsertOutcome(rel, t, wb), rel)

\* C19 witness: an oversized tuple can be inserted into a relation that holds
\* tuples and has a page with room for a tuple that fits, and the insertion
\* returns.
C19_Witness ==
    \E rel \in Rels, t \in Tuples, small \in Tuples :
        /\ CanInsert(rel, t) /\ Oversized(t)
        /\ ~InsertOutcome(rel, t, NoFault).s.panicked
        /\ Len(logical[rel]) >= 1 /\ HasItems(logical[rel][1])
        /\ CanInsert(rel, small) /\ InsertOutcome(rel, small, NoFault).ret.ok

WellFormedPage(page) ==
    /\ PAGE_HEADER_SIZE <= page.start_free_space
    /\ page.start_free_space <= page.end_free_space
    /\ page.end_free_space <= PAGE_SIZE
    /\ (page.start_free_space - PAGE_HEADER_SIZE) % ITEM_ID_SIZE = 0

\* C20: after any sequence of heap_create calls and the heap_insert calls
\* they make, successful or failing, every page of every relation satisfies
\* PAGE_HEADER_SIZE <= start_free_space <= end_free_space <= PAGE_SIZE, and
\* start_free_space - PAGE_HEADER_SIZE is a multiple of ITEM_ID_SIZE.
C20_PagesWellFormed ==
    \A rel \in AllRels :
        \A p \in 1..Len(logical[rel]) : WellFormedPage(logical[rel][p])

\* C21: in every reachable state, heap_scan over a relation whose page 1 is
\* all zero bytes, as extend produces it, returns the empty sequence: it does
\* not fail and the thread does not panic.
C21_ZeroPageScansEmpty ==
    \A rel \in Rels :
        /\ CanFetch(rel, 1)
        /\ Len(logical[rel]) >= 1 /\ logical[rel][1] = ZeroPage
        => /\ ~HeapScanOutcome(rel, 0, NoFault).s.panicked
           /\ HeapScanOutcome(rel, 0, NoFault).ret = Ok(<<>>)

\* The operation with outcome r, on buffer b, has left the pin state.
PinStateUnchanged(r, b) ==
    /\ \A f \in Frames : r.s.pages[f].refcount = pages[f].refcount
    /\ r.s.lru = lru
    /\ r.s.free_list = free_list
    /\ r.s.page_table = page_table
    /\ r.s.pages[b].tag = pages[b].tag
    /\ r.s.pages[b].rel = pages[b].rel
    /\ r.s.pages[b].page = pages[b].page

\* C22: in every reachable state, flush_buffer(b), whether its write succeeds
\* or fails, leaves the refcount of every frame, lru, free_list, page_table
\* and the tag, rel and page bytes of frame b as they were.
C22_FlushKeepsPinState ==
    \A b \in Frames, wb \in 0..1 :
        CanFlush(b) => PinStateUnchanged(FlushOutcome(b, wb), b)

\* C22 witness: a frame that can be flushed is pinned and dirty while another
\* frame waits in lru.
C22_Witness ==
    \E b \in Frames :
        /\ CanFlush(b)
        /\ pages[b].refcount > 0 /\ pages[b].is_dirty
        /\ \E f \in Frames : f # b /\ InSeq(f, lru)

\* The tuples of a relation in scan order, in the outcome r of an operation.
TuplesAfter(r, rel) == TuplesFrom(r.s.logical[rel], 1)

SerializedAttributes(tupledesc) ==
    [i \in 1..Len(tupledesc) |-> SerializePgAttribute(tupledesc[i])]

\* A heap_create with outcome r has taken its steps in order: pg_class gets
\* at most the tuple of the new relation, into a page with a header, and
\* only once pg_attribute holds a tuple for each attribute of tupledesc; the
\* new relation gets its page only once pg_class holds its tuple.
StepsInOrder(r, rel_name, new_rel_oid, tupledesc) ==
    /\ \/ TuplesAfter(r, PG_CLASS_RELATION_OID) = StoredTuples(PG_CLASS_RELATION_OID)
       \/ /\ TuplesAfter(r, PG_CLASS_RELATION_OID)
               = Append(StoredTuples(PG_CLASS_RELATION_OID),
                        SerializePgClass([oid |-> new_rel_oid, relname |-> rel_name]))
          /\ TuplesAfter(r, PG_ATTRIBUTE_RELATION_OID)
               = StoredTuples(PG_ATTRIBUTE_RELATION_OID)
                     \o SerializedAttributes(tupledesc)
          /\ WellFormedPage(r.s.logical[PG_CLASS_RELATION_OID][1])
    /\ Len(r.s.smgr[new_rel_oid]) > Len(smgr[new_rel_oid]) =>
          TuplesAfter(r, PG_CLASS_RELATION_OID) # StoredTuples(PG_CLASS_RELATION_OID)
    /\ \E n \in 0..Len(tupledesc) :
          TuplesAfter(r, PG_ATTRIBUTE_RELATION_OID)
              = StoredTuples(PG_ATTRIBUTE_RELATION_OID)
                    \o SubSeq(SerializedAttributes(tupledesc), 1, n)

\* C23: in every reachable state, every heap_create, whether it succeeds,
\* fails or panics part-way, has inserted all pg_attribute tuples of the new
\* relation before the pg_class tuple (into a pg_class whose first page has
\* been initialized), and the pg_class tuple before the first page of the new
\* relation exists.
C23_HeapCreateStepsInOrder ==
    \A rel_name \in Names, new_rel_oid \in Oids :
        \A tupledesc \in TupleDescs(new_rel_oid), wb \in FirstWriteOrNone :
            ~panicked =>
                StepsInOrder(HeapCreateOutcome(rel_name, new_rel_oid, tupledesc, wb),
                             rel_name, new_rel_oid, tupledesc)

\* C23 witness: pg_class and pg_attribute hold tuples, and a heap_create
\* with attributes is about to fail before it reaches pg_class.
C23_Witness ==
    /\ StoredTuples(PG_CLASS_RELATION_OID) # <<>>
    /\ StoredTuples(PG_ATTRIBUTE_RELATION_OID) # <<>>
    /\ \E rel_name \in Names, new_rel_oid \in Oids :
          \E tupledesc \in TupleDescs(new_rel_oid) :
              /\ CanCreate(rel_name, new_rel_oid, tupledesc)
              /\ tupledesc # <<>>
              /\ ~HeapCreateOutcome(rel_name, new_rel_oid, tupledesc, NoFault).ret.ok
              /\ ~HeapCreateOutcome(rel_name, new_rel_oid, tupledesc, NoFault).s.panicked

\* The messages an operation with outcome r has handed to encode.
Emitted(r) == SubSeq(r.c.stream, Len(stream) + 1, Len(r.c.stream))

\* What an operation that is to send the messages of seq has done: it has
\* handed to encode a prefix of seq, in order; every message but the last of
\* the prefix was written; it returns Ok exactly if all of seq was written.
SentInOrder(r, seq) ==
    /\ Len(Emitted(r)) <= Len(seq)
    /\ \A i \in 1..Len(Emitted(r)) :
          /\ Emitted(r)[i].message = seq[i]
          /\ i < Len(Emitted(r)) => Emitted(r)[i].sent
    /\ r.ret.ok <=> /\ Len(Emitted(r)) = Len(seq)
                    /\ \A i \in 1..Len(seq) : Emitted(r)[i].sent
    /\ ~r.ret.ok => /\ Len(Emitted(r)) >= 1
                    /\ ~Emitted(r)[Len(Emitted(r))].sent

PlacesOf(b) ==
    (IF InSeq(b, free_list) THEN 1 ELSE 0)
    + (IF InSeq(b, lru) THEN 1 ELSE 0)
    + (IF pages[b].refcount > 0 THEN 1 ELSE 0)

\* C25: in every reachable state, the states after fetch_buffer or
\* alloc_buffer returned an error included, every buffer is in exactly one of
\* free_list, lru and the set of the buffers with refcount > 0.
C25_FrameConservation ==
    ~panicked => \A b \in Frames : PlacesOf(b) = 1

\* C26: in every reachable state page_table is injective, the buffer of
\* every entry has the tag of the entry and a bound rel, and no buffer of
\* free_list is the value of an entry.
C26_PageTableConsistent ==
    /\ \A t1, t2 \in DOMAIN page_table :
          page_table[t1] = page_table[t2] => t1 = t2
    /\ \A tag \in DOMAIN page_table :
          /\ pages[page_table[tag]].tag = tag
          /\ pages[page_table[tag]].rel # NoRel
          /\ ~InSeq(page_table[tag], free_list)

\* C26 witness: free_list is used up and page_table holds an entry for every
\* buffer, one of them for a later page of a relation whose page 1 is no
\* longer in the table.
C26_Witness ==
    /\ Cardinality(DOMAIN page_table) = Capacity
    /\ \E tag \in DOMAIN page_table : tag[2] > 1 /\ <<tag[1], 1>> \notin DOMAIN page_table
    /\ free_list = <<>>

\* C27: no call that the sequences of heap_insert, heap_scan,
\* HeapScanner::next, heap_create and initialize_default_page_header can make
\* calls unpin_buffer on a buffer whose refcount is 0: in every reachable
\* state no refcount is below 0 and no next() of the caller's scanner
\* decrements a refcount of 0.
C27_NoUnpinAtZero ==
    /\ \A b \in Frames : pages[b].refcount >= 0
    /\ CanScanNext =>
          \A decodes \in BOOLEAN, oc \in Builds :
              ~ScanNextOutcome(decodes, oc).s.overflowed

RowDatums(row, columns, attrs) ==
    [j \in 1..Len(attrs) |->
        IF PositionOf(columns, attrs[j].attname) = 0
        THEN NullDatum
        ELSE row[PositionOf(columns, attrs[j].attname)]]

ExpectedTuples(rows, columns, attrs) ==
    [i \in 1..Len(rows) |-> FromDatums(RowDatums(rows[i], columns, attrs))]

\* A row of the statement has not the length of the column list, or holds an
\* expression that is no literal.
BadStatement(rows, columns) ==
    \E i \in 1..Len(rows) :
        \/ Len(rows[i]) # Len(columns)
        \/ \E k \in 1..Len(rows[i]) : rows[i][k] = NonLiteral

\* What C29 asks of an insert_into of rows into the relation of oid and
\* tuple descriptor attrs, its outcome being r.
StoresRows(r, oid, attrs, rows, columns) ==
    IF BadStatement(rows, columns)
    THEN ~r.ret.ok /\ TuplesAfter(r, oid) = StoredTuples(oid)
    ELSE r.ret.ok =>
             TuplesAfter(r, oid) = StoredTuples(oid) \o ExpectedTuples(rows, columns, attrs)

\* C29: insert_into stores one tuple for each row of the VALUES list, with
\* one datum for each attribute of the tuple descriptor of the relation (NULL
\* for the attributes no column names); when a row has not the length of the
\* column list or holds a non-literal expression, insert_into returns an
\* error and the relation holds the tuples it held.
C29_InsertStoresOneTuplePerRow ==
    \A rel_name \in Names, columns \in ColumnLists, source \in Sources :
        /\ source.kind = "Values"
        /\ Completed(InsertIntoOutcome(rel_name, columns, source, NoFault))
        /\ GetPgClassOutcome(rel_name, NoFault).ret.ok
        /\ TupleDescOutcome(rel_name, NoFault).ret.ok
        => StoresRows(InsertIntoOutcome(rel_name, columns, source, NoFault),
                      GetPgClassOutcome(rel_name, NoFault).ret.val.oid,
                      TupleDescOutcome(rel_name, NoFault).ret.val,
                      source.rows, columns)

====
